---- MODULE Spec2Model ----
(***************************************************************************)
(* A model of gin.go (morecrazy/gin): the graceful-exit drain             *)
(* (gracefulExit, HandleSignal, gracefulExitHandler), the fallback        *)
(* dispatcher (handle404 / handle405 with Use / NoRoute / NoMethod), the  *)
(* context pool and the log-level admin handlers.                         *)
(***************************************************************************)
EXTENDS Integers, Sequences, FiniteSets, TLC

(***************************************************************************)
(* Bounds of the model.                                                    *)
(***************************************************************************)
MaxReqs == 1
MaxExitReqs == 1

(***************************************************************************)
(* Program constants.                                                      *)
(***************************************************************************)
DrainTimeout == 60
GraceSleep == 1

RouteKinds == {"route", "noroute", "nomethod"}
FinishKinds == {"ok", "error", "panic"}
ExitReqs == 1..MaxExitReqs
Callers == {0} \cup ExitReqs
SigCaller == 0

VARIABLES
    \* ---- drain coordinator (package-level state of gin.go) ----
    exitFlag,       \* the flag setExit(true) sets
    wgCount,        \* counter of wgReqs
    onceDone,       \* exitOnce: its done word
    onceOwner,      \* exitOnce: the caller holding its mutex, or -1
    cpc,            \* per caller of gracefulExit: its position
    waiter,         \* the goroutine started by wait(): its position
    timerDeadline,  \* time.After(60s): when it fires, -1 when not armed
    outcome,        \* the outcome logged by the select
    now,            \* the clock, in seconds
    sigpc,          \* position of HandleSignal
    hpc,            \* per gracefulexit request: position of its handler
    wake,           \* per gracefulexit request: end of its time.Sleep
    inService,      \* per dispatch kind: the ordinary requests being served
    procExited,     \* the process has exited
    exitedBy,       \* who ended the process: a caller, "main" or "none"
    bodyRuns,       \* history: how many times onceFunc was entered
    trace,          \* history: the drain's events in order
    starter,        \* history: the caller that ran onceFunc, or -1
    wasBlocked      \* history: the waiter blocked in wgReqs.Wait()

drainVars == <<exitFlag, wgCount, onceDone, onceOwner, cpc, waiter,
               timerDeadline, outcome, now, sigpc, hpc, wake, inService,
               procExited, exitedBy, bodyRuns, trace, starter, wasBlocked>>

VARIABLES
    \* ---- Engine fields set up by Use / NoRoute / NoMethod ----
    Handlers,            \* RouterGroup.Handlers: the global middleware
    noRoute,             \* engine.noRoute
    noMethod,            \* engine.noMethod
    allNoRouteNoMethod,  \* engine.allNoRouteNoMethod
    setupCalls,          \* number of setup calls made
    \* ---- one request served by handle404 / handle405 ----
    fpc,                 \* position in handle404 / handle405
    reqKind,             \* "noroute" (handle404) or "nomethod" (handle405)
    handlers,            \* c.handlers
    index,               \* c.index, an int8
    wStatus,             \* c.Writer: status
    wWritten,            \* c.Writer: headers written
    sentStatus,          \* status line sent to the client, 0 if none
    sentBody,            \* body sent to the client
    sentType,            \* Content-Type header
    stack,               \* the call stack below handle404 / handle405
    abortedAt,           \* history: positions whose handler called Abort
    lateStart,           \* history: a handler started after an Abort before it
    handlerWrote,        \* history: a handler wrote the response
    statusSet,           \* history: a handler changed the status
    started,             \* history: positions whose handler has started
    startedAgain,        \* history: positions whose handler started more than once
    postDone,            \* history: positions whose code after c.Next() has run
    postAgain,           \* history: positions whose code after c.Next() ran more than once
    waitAborted          \* history: positions waiting in c.Next() when a later handler aborted

setupVars == <<Handlers, noRoute, noMethod, allNoRouteNoMethod, setupCalls>>
ctxVars == <<handlers, index, wStatus, wWritten, sentStatus, sentBody, sentType,
             stack>>
runVars == <<started, startedAgain, postDone, postAgain, waitAborted>>
histVars == <<abortedAt, lateStart, handlerWrote, statusSet, runVars>>
chainVars == <<setupVars, fpc, reqKind, ctxVars, histVars>>

VARIABLES
    \* ---- engine.pool and the Contexts it hands out ----
    pool,           \* the Contexts in engine.pool
    allocated,      \* how many Contexts pool.New has made
    ctx,            \* per Context: handlers, index, Writer (whose writermem)
    writermem,      \* per Context: its embedded writer (status, written, w)
    wk,             \* per request worker: position, Context, request, chain
    reqSeq,         \* requests started so far
    released        \* history: Contexts that were put back at least once

poolVars == <<pool, allocated, ctx, writermem, wk, reqSeq, released>>

VARIABLES
    \* ---- the admin server's loggers ----
    logger,         \* engine.logger: the registered LoggerInfo list
    registered,     \* UseAdminServer has run
    levels,         \* per logging backend: module -> level, -1 when unset
    rsp,            \* the response of the last admin request
    lastReq,        \* history: the last admin request
    prevLevels      \* history: levels before the last admin request

adminVars == <<logger, registered, levels, rsp, lastReq, prevLevels>>

vars == <<drainVars, chainVars, poolVars, adminVars>>

nonDrainVars == <<chainVars, poolVars, adminVars>>
nonChainVars == <<drainVars, poolVars, adminVars>>
nonPoolVars == <<drainVars, chainVars, adminVars>>
nonAdminVars == <<drainVars, chainVars, poolVars>>

Min(S) == CHOOSE x \in S : \A y \in S : x <= y

(***************************************************************************)
(* wgReqs: a sync.WaitGroup.  Add(1) on entry of a routed request, Done on *)
(* its exit; Done that brings the counter to zero releases a blocked Wait. *)
(***************************************************************************)
WgAdd ==
    wgCount' = wgCount + 1

WgDone ==
    /\ wgCount' = wgCount - 1
    /\ waiter' = IF waiter = "blocked" /\ wgCount - 1 = 0 THEN "send" ELSE waiter

(***************************************************************************)
(* Whether the router's wrapper of a request counts it in wgReqs.          *)
(* A matched route is wrapped with Add(1) / defer Done; handle404 and      *)
(* handle405 (gin.go 137-165) touch no counter.                            *)
(***************************************************************************)
RouteCounts(kind) == kind = "route"

FallbackCounts(kind) == FALSE

Counted(kind) ==
    IF kind = "route" THEN RouteCounts(kind) ELSE FallbackCounts(kind)

DrainInit ==
    /\ exitFlag = FALSE
    /\ wgCount = 0
    /\ onceDone = FALSE
    /\ onceOwner = -1
    /\ cpc = [c \in Callers |-> "idle"]
    /\ waiter = "none"
    /\ timerDeadline = -1
    /\ outcome = "none"
    /\ now = 0
    /\ sigpc = "listen"
    /\ hpc = [h \in ExitReqs |-> "idle"]
    /\ wake = [h \in ExitReqs |-> -1]
    /\ inService = [k \in RouteKinds |-> 0]
    /\ procExited = FALSE
    /\ exitedBy = "none"
    /\ bodyRuns = 0
    /\ trace = <<>>
    /\ starter = -1
    /\ wasBlocked = FALSE

(***************************************************************************)
(* Ordinary requests, each served by its own goroutine.                    *)
(***************************************************************************)
Serving == inService["route"] + inService["noroute"] + inService["nomethod"]

\* A dispatch that turned requests away once the exit flag is set.
ReqArriveGated(kind) ==
    /\ ~procExited
    /\ ~exitFlag
    /\ Serving < MaxReqs
    /\ inService' = [inService EXCEPT ![kind] = @ + 1]
    /\ IF Counted(kind) THEN WgAdd ELSE wgCount' = wgCount
    /\ UNCHANGED <<nonDrainVars, exitFlag, onceDone, onceOwner, cpc, waiter, timerDeadline,
                   outcome, now, sigpc, hpc, wake, procExited, exitedBy,
                   bodyRuns, trace, starter, wasBlocked>>

ReqArrive(kind) ==
    /\ ~procExited
    /\ Serving < MaxReqs
    /\ inService' = [inService EXCEPT ![kind] = @ + 1]
    /\ IF Counted(kind) THEN WgAdd ELSE wgCount' = wgCount
    /\ UNCHANGED <<nonDrainVars, exitFlag, onceDone, onceOwner, cpc, waiter, timerDeadline,
                   outcome, now, sigpc, hpc, wake, procExited, exitedBy,
                   bodyRuns, trace, starter, wasBlocked>>

\* The request's handling ends: normally, with an error, or by a panic; the
\* deferred Done of a counted request runs on each of these paths.
ReqFinish(kind, how) ==
    /\ ~procExited
    /\ inService[kind] > 0
    /\ how \in FinishKinds
    /\ inService' = [inService EXCEPT ![kind] = @ - 1]
    /\ IF Counted(kind) THEN WgDone ELSE UNCHANGED <<wgCount, waiter>>
    /\ UNCHANGED <<nonDrainVars, exitFlag, onceDone, onceOwner, cpc, timerDeadline,
                   outcome, now, sigpc, hpc, wake, procExited, exitedBy,
                   bodyRuns, trace, starter, wasBlocked>>

(***************************************************************************)
(* gracefulExit (gin.go 217-239): exitOnce.Do(onceFunc).                   *)
(***************************************************************************)
\* sync.Once.Do, fast path: done already set, return at once.
\* A once that marked itself at the start of f would also let a caller return
\* while f is still running.
OnceFastWhileRunning(c) ==
    /\ ~procExited
    /\ cpc[c] = "do"
    /\ cpc' = [cpc EXCEPT ![c] = IF onceDone \/ onceOwner # -1 THEN "ret" ELSE "lock"]
    /\ UNCHANGED <<nonDrainVars, exitFlag, wgCount, onceDone, onceOwner, waiter, timerDeadline,
                   outcome, now, sigpc, hpc, wake, inService, procExited,
                   exitedBy, bodyRuns, trace, starter, wasBlocked>>

OnceFast(c) ==
    /\ ~procExited
    /\ cpc[c] = "do"
    /\ cpc' = [cpc EXCEPT ![c] = IF onceDone THEN "ret" ELSE "lock"]
    /\ UNCHANGED <<nonDrainVars, exitFlag, wgCount, onceDone, onceOwner, waiter, timerDeadline,
                   outcome, now, sigpc, hpc, wake, inService, procExited,
                   exitedBy, bodyRuns, trace, starter, wasBlocked>>

\* doSlow: under the mutex, run f only if done is still unset.
OnceSkipsRecheck == TRUE

OnceMustRun == ~onceDone

\* A caller that does not get the mutex waits for the one running f.
OnceMayEnterNoMutex == TRUE

OnceMayEnter == onceOwner = -1

OnceLock(c) ==
    /\ ~procExited
    /\ cpc[c] = "lock"
    /\ OnceMayEnter
    /\ IF OnceMustRun
         THEN /\ cpc' = [cpc EXCEPT ![c] = "log"]
              /\ onceOwner' = c
              /\ bodyRuns' = bodyRuns + 1
              /\ starter' = c
         ELSE /\ cpc' = [cpc EXCEPT ![c] = "ret"]
              /\ UNCHANGED <<onceOwner, bodyRuns, starter>>
    /\ UNCHANGED <<nonDrainVars, exitFlag, wgCount, onceDone, waiter, timerDeadline,
                   outcome, now, sigpc, hpc, wake, inService, procExited,
                   exitedBy, trace, wasBlocked>>

\* log.Println("gin: graceful exiting...")
BodyLog(c) ==
    /\ ~procExited
    /\ cpc[c] = "log"
    /\ cpc' = [cpc EXCEPT ![c] = "set"]
    /\ trace' = Append(trace, "exiting")
    /\ UNCHANGED <<nonDrainVars, exitFlag, wgCount, onceDone, onceOwner, waiter, timerDeadline,
                   outcome, now, sigpc, hpc, wake, inService, procExited,
                   exitedBy, bodyRuns, starter, wasBlocked>>

\* setExit(true)
BodySetExit(c) ==
    /\ ~procExited
    /\ cpc[c] = "set"
    /\ cpc' = [cpc EXCEPT ![c] = "sel0"]
    /\ exitFlag' = TRUE
    /\ trace' = Append(trace, "setExit")
    /\ UNCHANGED <<nonDrainVars, wgCount, onceDone, onceOwner, waiter, timerDeadline,
                   outcome, now, sigpc, hpc, wake, inService, procExited,
                   exitedBy, bodyRuns, starter, wasBlocked>>

\* The select is entered: wait() starts the waiter goroutine and returns its
\* channel, time.After arms the timer.
BodySelectEnter(c) ==
    /\ ~procExited
    /\ cpc[c] = "sel0"
    /\ cpc' = [cpc EXCEPT ![c] = "sel"]
    /\ waiter' = "start"
    /\ timerDeadline' = now + DrainTimeout
    /\ trace' = Append(trace, "wait")
    /\ UNCHANGED <<nonDrainVars, exitFlag, wgCount, onceDone, onceOwner,
                   outcome, now, sigpc, hpc, wake, inService, procExited,
                   exitedBy, bodyRuns, starter, wasBlocked>>

\* The waiter goroutine calls wgReqs.Wait(): it returns at once when the
\* counter is zero and blocks otherwise.
WaiterWait ==
    /\ ~procExited
    /\ waiter = "start"
    /\ waiter' = IF wgCount = 0 THEN "send" ELSE "blocked"
    /\ wasBlocked' = (wgCount # 0)
    /\ UNCHANGED <<nonDrainVars, exitFlag, wgCount, onceDone, onceOwner, cpc, timerDeadline,
                   outcome, now, sigpc, hpc, wake, inService, procExited,
                   exitedBy, bodyRuns, trace, starter>>

\* The branches of the select that are ready.
WaitBranchReady == waiter = "send"

TimeoutBranchNever == FALSE

TimeoutBranchLate == timerDeadline >= 0 /\ now > timerDeadline

TimeoutBranchReady == timerDeadline >= 0 /\ now >= timerDeadline

\* case <-wait(): the waiter's send on the unbuffered channel is received.
SelectOK(c) ==
    /\ ~procExited
    /\ cpc[c] = "sel"
    /\ WaitBranchReady
    /\ cpc' = [cpc EXCEPT ![c] = "end"]
    /\ waiter' = "done"
    /\ outcome' = "OK"
    /\ trace' = Append(trace, "OK")
    /\ UNCHANGED <<nonDrainVars, exitFlag, wgCount, onceDone, onceOwner, timerDeadline,
                   now, sigpc, hpc, wake, inService, procExited,
                   exitedBy, bodyRuns, starter, wasBlocked>>

\* case <-time.After(60 * time.Second)
SelectTimeout(c) ==
    /\ ~procExited
    /\ cpc[c] = "sel"
    /\ TimeoutBranchReady
    /\ cpc' = [cpc EXCEPT ![c] = "end"]
    /\ outcome' = "timeout"
    /\ trace' = Append(trace, "timeout")
    /\ UNCHANGED <<nonDrainVars, exitFlag, wgCount, onceDone, onceOwner, waiter, timerDeadline,
                   now, sigpc, hpc, wake, inService, procExited,
                   exitedBy, bodyRuns, starter, wasBlocked>>

\* onceFunc returns: Once stores done and unlocks, Do returns.
BodyEnd(c) ==
    /\ ~procExited
    /\ cpc[c] = "end"
    /\ cpc' = [cpc EXCEPT ![c] = "ret"]
    /\ onceDone' = TRUE
    /\ onceOwner' = -1
    /\ UNCHANGED <<nonDrainVars, exitFlag, wgCount, waiter, timerDeadline,
                   outcome, now, sigpc, hpc, wake, inService, procExited,
                   exitedBy, bodyRuns, trace, starter, wasBlocked>>

(***************************************************************************)
(* HandleSignal (gin.go 203-214) and the main of the sample (363-378).     *)
(***************************************************************************)
\* s := <-sig
SignalArrives ==
    /\ ~procExited
    /\ sigpc = "listen"
    /\ sigpc' = "got"
    /\ UNCHANGED <<nonDrainVars, exitFlag, wgCount, onceDone, onceOwner, cpc, waiter,
                   timerDeadline, outcome, now, hpc, wake, inService,
                   procExited, exitedBy, bodyRuns, trace, starter, wasBlocked>>

\* log.Printf(...); gracefulExit()
SigCallExit ==
    /\ ~procExited
    /\ sigpc = "got"
    /\ sigpc' = "exiting"
    /\ cpc' = [cpc EXCEPT ![SigCaller] = "do"]
    /\ UNCHANGED <<nonDrainVars, exitFlag, wgCount, onceDone, onceOwner, waiter,
                   timerDeadline, outcome, now, hpc, wake, inService,
                   procExited, exitedBy, bodyRuns, trace, starter, wasBlocked>>

\* gracefulExit returned; the deferred log.Println("gin: ByeBye!") runs and
\* HandleSignal returns.
SigReturn ==
    /\ ~procExited
    /\ sigpc = "exiting"
    /\ cpc[SigCaller] = "ret"
    /\ sigpc' = "returned"
    /\ UNCHANGED <<nonDrainVars, exitFlag, wgCount, onceDone, onceOwner, cpc, waiter,
                   timerDeadline, outcome, now, hpc, wake, inService,
                   procExited, exitedBy, bodyRuns, trace, starter, wasBlocked>>

\* main returns after ginengine.HandleSignal(): the process ends.
MainReturn ==
    /\ ~procExited
    /\ sigpc = "returned"
    /\ procExited' = TRUE
    /\ exitedBy' = "main"
    /\ UNCHANGED <<nonDrainVars, exitFlag, wgCount, onceDone, onceOwner, cpc, waiter,
                   timerDeadline, outcome, now, sigpc, hpc, wake, inService,
                   bodyRuns, trace, starter, wasBlocked>>

(***************************************************************************)
(* gracefulExitHandler (gin.go 304-314), a routed GET handler.             *)
(***************************************************************************)
\* The router dispatches GET /admin/gracefulexit: a matched route.
ExitReqArrive(h) ==
    /\ ~procExited
    /\ hpc[h] = "idle"
    /\ hpc' = [hpc EXCEPT ![h] = "handler"]
    /\ IF Counted("route") THEN WgAdd ELSE wgCount' = wgCount
    /\ UNCHANGED <<nonDrainVars, exitFlag, onceDone, onceOwner, cpc, waiter, timerDeadline,
                   outcome, now, sigpc, wake, inService, procExited, exitedBy,
                   bodyRuns, trace, starter, wasBlocked>>

\* log.Printf(...); go func() { gracefulExit(); os.Exit(0) }()
\* Without the go statement the handler itself would call gracefulExit and go
\* on only when it has returned.
ExitHandlerCallsInline(h) ==
    /\ ~procExited
    /\ hpc[h] = "handler"
    /\ cpc[h] \in {"idle", "ret"}
    /\ IF cpc[h] = "idle"
         THEN cpc' = [cpc EXCEPT ![h] = "do"] /\ hpc' = hpc
         ELSE hpc' = [hpc EXCEPT ![h] = "rsp"] /\ cpc' = cpc
    /\ UNCHANGED <<nonDrainVars, exitFlag, wgCount, onceDone, onceOwner, waiter, timerDeadline,
                   outcome, now, sigpc, wake, inService, procExited, exitedBy,
                   bodyRuns, trace, starter, wasBlocked>>

ExitHandlerGo(h) ==
    /\ ~procExited
    /\ hpc[h] = "handler"
    /\ hpc' = [hpc EXCEPT ![h] = "rsp"]
    /\ cpc' = [cpc EXCEPT ![h] = "do"]
    /\ UNCHANGED <<nonDrainVars, exitFlag, wgCount, onceDone, onceOwner, waiter, timerDeadline,
                   outcome, now, sigpc, wake, inService, procExited, exitedBy,
                   bodyRuns, trace, starter, wasBlocked>>

\* codoonRsp(c, "OK", "", "graceful exiting")
ExitHandlerRsp(h) ==
    /\ ~procExited
    /\ hpc[h] = "rsp"
    /\ hpc' = [hpc EXCEPT ![h] = "flush"]
    /\ UNCHANGED <<nonDrainVars, exitFlag, wgCount, onceDone, onceOwner, cpc, waiter,
                   timerDeadline, outcome, now, sigpc, wake, inService,
                   procExited, exitedBy, bodyRuns, trace, starter, wasBlocked>>

\* c.Writer.Flush(); time.Sleep(1 * time.Second) begins
ExitHandlerFlush(h) ==
    /\ ~procExited
    /\ hpc[h] = "flush"
    /\ hpc' = [hpc EXCEPT ![h] = "sleep"]
    /\ wake' = [wake EXCEPT ![h] = now + GraceSleep]
    /\ UNCHANGED <<nonDrainVars, exitFlag, wgCount, onceDone, onceOwner, cpc, waiter,
                   timerDeadline, outcome, now, sigpc, inService,
                   procExited, exitedBy, bodyRuns, trace, starter, wasBlocked>>

\* The sleep ends and the handler returns.
ExitHandlerWake(h) ==
    /\ ~procExited
    /\ hpc[h] = "sleep"
    /\ now >= wake[h]
    /\ hpc' = [hpc EXCEPT ![h] = "ret"]
    /\ wake' = [wake EXCEPT ![h] = -1]
    /\ UNCHANGED <<nonDrainVars, exitFlag, wgCount, onceDone, onceOwner, cpc, waiter,
                   timerDeadline, outcome, now, sigpc, inService,
                   procExited, exitedBy, bodyRuns, trace, starter, wasBlocked>>

\* The router's wrapper ends the request.
ExitReqLeave(h) ==
    /\ ~procExited
    /\ hpc[h] = "ret"
    /\ hpc' = [hpc EXCEPT ![h] = "done"]
    /\ IF Counted("route") THEN WgDone ELSE UNCHANGED <<wgCount, waiter>>
    /\ UNCHANGED <<nonDrainVars, exitFlag, onceDone, onceOwner, cpc, timerDeadline,
                   outcome, now, sigpc, wake, inService, procExited, exitedBy,
                   bodyRuns, trace, starter, wasBlocked>>

\* The handler's goroutine: gracefulExit() returned; os.Exit(0).
GoExit(h) ==
    /\ ~procExited
    /\ cpc[h] = "ret"
    /\ procExited' = TRUE
    /\ exitedBy' = "http"
    /\ cpc' = [cpc EXCEPT ![h] = "exit"]
    /\ UNCHANGED <<nonDrainVars, exitFlag, wgCount, onceDone, onceOwner, waiter,
                   timerDeadline, outcome, now, sigpc, hpc, wake, inService,
                   bodyRuns, trace, starter, wasBlocked>>

(***************************************************************************)
(* Time: the clock moves to the next pending deadline.  The clock counts   *)
(* whole seconds; a handler between its go statement and the end of its    *)
(* Flush takes less than one of them, so no second passes there, and none  *)
(* passes between the firing of the timer and the select that receives it. *)
(***************************************************************************)
HandlerWriting == \E h \in ExitReqs : hpc[h] \in {"rsp", "flush"}

TimerFired == outcome = "none" /\ timerDeadline >= 0 /\ now >= timerDeadline

Deadlines ==
    (IF timerDeadline >= 0 /\ outcome = "none" THEN {timerDeadline} ELSE {})
    \cup {wake[h] : h \in {x \in ExitReqs : hpc[x] = "sleep"}}

Advance ==
    /\ ~procExited
    /\ ~HandlerWriting
    /\ ~TimerFired
    /\ \E d \in Deadlines : d > now
    /\ now' = Min({d \in Deadlines : d > now})
    /\ UNCHANGED <<nonDrainVars, exitFlag, wgCount, onceDone, onceOwner, cpc, waiter,
                   timerDeadline, outcome, sigpc, hpc, wake, inService,
                   procExited, exitedBy, bodyRuns, trace, starter, wasBlocked>>

DrainStep ==
    \/ \E c \in Callers : OnceFast(c)
    \/ \E c \in Callers : OnceLock(c)
    \/ \E c \in Callers : BodyLog(c)
    \/ \E c \in Callers : BodySetExit(c)
    \/ \E c \in Callers : BodySelectEnter(c)
    \/ WaiterWait
    \/ \E c \in Callers : SelectOK(c)
    \/ \E c \in Callers : SelectTimeout(c)
    \/ \E c \in Callers : BodyEnd(c)
    \/ SigCallExit
    \/ SigReturn
    \/ MainReturn
    \/ \E h \in ExitReqs : ExitHandlerGo(h)
    \/ \E h \in ExitReqs : ExitHandlerRsp(h)
    \/ \E h \in ExitReqs : ExitHandlerFlush(h)
    \/ \E h \in ExitReqs : ExitHandlerWake(h)
    \/ \E h \in ExitReqs : ExitReqLeave(h)
    \/ \E h \in ExitReqs : GoExit(h)
    \/ Advance

DrainEnv ==
    \/ \E k \in RouteKinds : ReqArrive(k)
    \/ \E k \in RouteKinds, how \in FinishKinds : ReqFinish(k, how)
    \/ SignalArrives
    \/ \E h \in ExitReqs : ExitReqArrive(h)

(***************************************************************************)
(* The fallback dispatcher: setup (gin.go 112-135) and handle404 /         *)
(* handle405 (gin.go 137-165).  A handler is given by what its body does:  *)
(*   nop        returns                                                    *)
(*   abort      c.Abort()                                                  *)
(*   next       c.Next(), then returns                                     *)
(*   nextabort  c.Next(), then c.Abort()                                   *)
(*   status     c.Writer.WriteHeader(st), st one of OverrideStatuses       *)
(*   write      writes a response body                                     *)
(***************************************************************************)
MaxSetup == 2

MaxInt8 == 127
AbortIndex == MaxInt8 \div 2
OverrideStatuses == {403, 404}

MIMEPlain == "text/plain"
Default404Body == "404 page not found"
Default405Body == "405 method not allowed"
HandlerBody == "handler body"

Kinds == {"nop", "abort", "next", "nextabort", "status", "write"}

\* The handler lists given to a setup call: none, one handler, or a handler
\* that calls Next followed by one that aborts; for the global middleware
\* also a long list that takes the chain past AbortIndex.
LongList == [i \in 1..(AbortIndex + 1) |-> "nop"]
HandlerLists == {<<>>} \cup {<<k>> : k \in Kinds} \cup {<<"next", "abort">>}
GlobalLists == HandlerLists \cup {LongList}

\* The depth to which the model follows nested calls of Next, and the number
\* of handler writes it follows in one request.
StackLimit == 2 * (AbortIndex + 3)
MaxWrites == 2

ToInt8(n) == ((n + 128) % 256) - 128

\* RouterGroup.combineHandlers: the group's handlers, then the given ones.
combineHandlers(group, hs) == group \o hs

\* rebuild404Handlers / rebuild405Handlers: both assign the one field
\* engine.allNoRouteNoMethod.
rebuild404Handlers(group, nr) == combineHandlers(group, nr)

rebuild405Handlers(group, nm) == combineHandlers(group, nm)

ChainInit ==
    /\ Handlers = <<>>
    /\ noRoute = <<>>
    /\ noMethod = <<>>
    /\ allNoRouteNoMethod = <<>>
    /\ setupCalls = 0
    /\ fpc = "setup"
    /\ reqKind = "none"
    /\ handlers = <<>>
    /\ index = -1
    /\ wStatus = 200
    /\ wWritten = FALSE
    /\ sentStatus = 0
    /\ sentBody = ""
    /\ sentType = ""
    /\ stack = <<>>
    /\ abortedAt = {}
    /\ lateStart = FALSE
    /\ handlerWrote = FALSE
    /\ statusSet = FALSE
    /\ started = {}
    /\ startedAgain = {}
    /\ postDone = {}
    /\ postAgain = {}
    /\ waitAborted = {}

CanSetup == fpc = "setup" /\ setupCalls < MaxSetup

\* engine.NoRoute(handlers...)
NoRoute(hs) ==
    /\ CanSetup
    /\ noRoute' = hs
    /\ allNoRouteNoMethod' = rebuild404Handlers(Handlers, hs)
    /\ setupCalls' = setupCalls + 1
    /\ UNCHANGED <<nonChainVars, Handlers, noMethod, fpc, reqKind, ctxVars, histVars>>

\* engine.NoMethod(handlers...)
NoMethod(hs) ==
    /\ CanSetup
    /\ noMethod' = hs
    /\ allNoRouteNoMethod' = rebuild405Handlers(Handlers, hs)
    /\ setupCalls' = setupCalls + 1
    /\ UNCHANGED <<nonChainVars, Handlers, noRoute, fpc, reqKind, ctxVars, histVars>>

\* engine.Use(middlewares...): RouterGroup.Use appends, then both rebuilds
\* run, the second one last.
Use(hs) ==
    /\ CanSetup
    /\ Len(Handlers) + Len(hs) <= AbortIndex + 2
    /\ Handlers' = Handlers \o hs
    /\ LET after404 == rebuild404Handlers(Handlers', noRoute)
           after405 == rebuild405Handlers(Handlers', noMethod)
       IN  allNoRouteNoMethod' = after405
    /\ setupCalls' = setupCalls + 1
    /\ UNCHANGED <<nonChainVars, noRoute, noMethod, fpc, reqKind, ctxVars, histVars>>

\* responseWriter.WriteHeader(code): a code that is not positive leaves the
\* status as it is.
WriteHeader(cur, code) == IF code > 0 THEN code ELSE cur

\* The status handle404 / handle405 sets before the chain, the status it
\* compares with after the chain, and the body it then writes.
PresetStatus(kind) == IF kind = "noroute" THEN 404 ELSE 405

ExpectedStatusCopied(kind) == 404

ExpectedStatusSwapped(kind) == IF kind = "noroute" THEN 405 ELSE 404

ExpectedStatus(kind) == IF kind = "noroute" THEN 404 ELSE 405

DefaultBody(kind) == IF kind = "noroute" THEN Default404Body ELSE Default405Body

\* The router finds no route (handle404) or no method (handle405):
\*   c := engine.createContext(w, req, nil, engine.allNoRouteNoMethod)
\*   c.Writer.WriteHeader(404 / 405)
Dispatch(kind) ==
    /\ fpc = "setup"
    /\ fpc' = "next"
    /\ reqKind' = kind
    /\ handlers' = allNoRouteNoMethod
    /\ index' = -1
    /\ wStatus' = PresetStatus(kind)
    /\ wWritten' = FALSE
    /\ UNCHANGED <<nonChainVars, setupVars, sentStatus, sentBody, sentType, stack, histVars>>

\* c.Next(): c.index++, then the loop  for ; c.index < s; c.index++
LoopFrame == [pos |-> -1, ph |-> "loop"]

CallNext ==
    /\ fpc = "next"
    /\ fpc' = "chain"
    /\ index' = ToInt8(index + 1)
    /\ stack' = <<LoopFrame>>
    /\ UNCHANGED <<nonChainVars, setupVars, reqKind, handlers, wStatus, wWritten, sentStatus,
                   sentBody, sentType, histVars>>

Top == stack[Len(stack)]
Pop == SubSeq(stack, 1, Len(stack) - 1)
SetTop(f) == [stack EXCEPT ![Len(stack)] = f]

\* The loop test of Next: start the handler at c.index, or return from Next.
LoopStart ==
    /\ fpc = "chain"
    /\ Top.ph = "loop"
    /\ index < ToInt8(Len(handlers))
    /\ stack' = Append(stack, [pos |-> index, ph |-> "pre"])
    /\ lateStart' = (lateStart \/ \E i \in abortedAt : index > i)
    /\ started' = started \cup {index}
    /\ startedAgain' = IF index \in started THEN startedAgain \cup {index}
                       ELSE startedAgain
    /\ UNCHANGED <<nonChainVars, setupVars, fpc, reqKind, handlers, index, wStatus, wWritten,
                   sentStatus, sentBody, sentType, abortedAt, handlerWrote,
                   statusSet, postDone, postAgain, waitAborted>>

LoopEnd ==
    /\ fpc = "chain"
    /\ Top.ph = "loop"
    /\ ~(index < ToInt8(Len(handlers)))
    /\ IF Len(stack) = 1
         THEN /\ stack' = <<>>
              /\ fpc' = "finalize"
         ELSE /\ stack' = [Pop EXCEPT ![Len(stack) - 1] = [@ EXCEPT !.ph = "post"]]
              /\ fpc' = fpc
    /\ UNCHANGED <<nonChainVars, setupVars, reqKind, handlers, index, wStatus, wWritten,
                   sentStatus, sentBody, sentType, histVars>>

KindOf(f) == handlers[f.pos + 1]

\* The positions below the running handler whose handlers wait in c.Next().
WaitingBelow ==
    {stack[i].pos : i \in {n \in 1..Len(stack) : stack[n].ph = "wait"
                                                  /\ stack[n].pos < Top.pos}}

\* A handler returns to the loop that called it, which then does c.index++.
ReturnWith(idx) ==
    /\ stack' = Pop
    /\ index' = ToInt8(idx + 1)

\* A handler body that neither calls Next nor is past its call.
HandlerPlain ==
    /\ fpc = "chain"
    /\ Top.ph = "pre"
    /\ KindOf(Top) \in {"nop", "abort", "status", "write"}
    /\ KindOf(Top) = "write" => Len(sentBody) < MaxWrites * Len(HandlerBody)
    /\ \E st \in OverrideStatuses : LET k == KindOf(Top) IN
         /\ ReturnWith(IF k = "abort" THEN AbortIndex ELSE index)
         /\ abortedAt' = IF k = "abort" THEN abortedAt \cup {Top.pos} ELSE abortedAt
         /\ wStatus' = IF k = "status" THEN WriteHeader(wStatus, st)
                       ELSE wStatus
         /\ statusSet' = (statusSet \/ k = "status")
         /\ wWritten' = (wWritten \/ k = "write")
         /\ handlerWrote' = (handlerWrote \/ k = "write")
         /\ sentStatus' = IF k = "write" /\ ~wWritten THEN wStatus ELSE sentStatus
         /\ sentBody' = IF k = "write" THEN sentBody \o HandlerBody ELSE sentBody
         /\ waitAborted' = IF k = "abort" THEN waitAborted \cup WaitingBelow
                           ELSE waitAborted
    /\ UNCHANGED <<nonChainVars, setupVars, fpc, reqKind, handlers, sentType, lateStart,
                   started, startedAgain, postDone, postAgain>>

\* A handler body calls c.Next().
HandlerCallsNext ==
    /\ fpc = "chain"
    /\ Top.ph = "pre"
    /\ Len(stack) < StackLimit
    /\ KindOf(Top) \in {"next", "nextabort"}
    /\ index' = ToInt8(index + 1)
    /\ stack' = Append(SetTop([Top EXCEPT !.ph = "wait"]), LoopFrame)
    /\ UNCHANGED <<nonChainVars, setupVars, fpc, reqKind, handlers, wStatus, wWritten,
                   sentStatus, sentBody, sentType, histVars>>

\* The code of a handler after its c.Next() returned.
HandlerPost ==
    /\ fpc = "chain"
    /\ Top.ph = "post"
    /\ LET k == KindOf(Top) IN
         /\ ReturnWith(IF k = "nextabort" THEN AbortIndex ELSE index)
         /\ abortedAt' = IF k = "nextabort" THEN abortedAt \cup {Top.pos}
                         ELSE abortedAt
         /\ waitAborted' = IF k = "nextabort" THEN waitAborted \cup WaitingBelow
                           ELSE waitAborted
         /\ postDone' = postDone \cup {Top.pos}
         /\ postAgain' = IF Top.pos \in postDone THEN postAgain \cup {Top.pos}
                         ELSE postAgain
    /\ UNCHANGED <<nonChainVars, setupVars, fpc, reqKind, handlers, wStatus, wWritten,
                   sentStatus, sentBody, sentType, lateStart, handlerWrote,
                   statusSet, started, startedAgain>>

\* After c.Next() in handle404 / handle405:
\*   if !c.Writer.Written() {
\*       if c.Writer.Status() == 404 { c.Data(-1, MIMEPlain, Default404Body) }
\*       else { c.Writer.WriteHeaderNow() } }
\* c.Data sets the Content-Type, calls WriteHeader(-1) and writes the body.
Finalize ==
    /\ fpc = "finalize"
    /\ fpc' = "reuse"
    /\ IF ~wWritten
         THEN /\ wWritten' = TRUE
              /\ IF wStatus = ExpectedStatus(reqKind)
                   THEN /\ sentType' = MIMEPlain
                        /\ wStatus' = WriteHeader(wStatus, -1)
                        /\ sentStatus' = wStatus'
                        /\ sentBody' = DefaultBody(reqKind)
                   ELSE /\ sentStatus' = wStatus
                        /\ UNCHANGED <<wStatus, sentType, sentBody>>
         ELSE UNCHANGED <<wWritten, wStatus, sentStatus, sentType, sentBody>>
    /\ UNCHANGED <<nonChainVars, setupVars, reqKind, handlers, index, stack, histVars>>

\* engine.reuseContext(c)
Reuse ==
    /\ fpc = "reuse"
    /\ fpc' = "done"
    /\ UNCHANGED <<nonChainVars, setupVars, reqKind, ctxVars, histVars>>

ChainStep ==
    \/ \E hs \in HandlerLists : NoRoute(hs)
    \/ \E hs \in HandlerLists : NoMethod(hs)
    \/ \E hs \in GlobalLists : Use(hs)
    \/ \E kind \in {"noroute", "nomethod"} : Dispatch(kind)
    \/ CallNext
    \/ LoopStart
    \/ LoopEnd
    \/ HandlerPlain
    \/ HandlerCallsNext
    \/ HandlerPost
    \/ Finalize
    \/ Reuse

(***************************************************************************)
(* The context pool: engine.pool (a sync.Pool, gin.go 42), its New         *)
(* (gin.go 71-75), createContext and reuseContext as handle404 / handle405 *)
(* use them (gin.go 138, 149).                                             *)
(***************************************************************************)
MaxCtx == 2
MaxWorkers == 2
MaxPoolReqs == 3

CtxIds == 1..MaxCtx
Workers == 1..MaxWorkers
PoolChains == {<<>>, <<"abort", "write">>}

NoCtx == [handlers |-> <<>>, index |-> 0, Writer |-> 0]
NoWriter == [status |-> 0, written |-> FALSE, w |-> 0]

\* engine.pool.New:  c := &Context{Engine: engine}; c.Writer = &c.writermem
poolNewSharedWriter(id) == [handlers |-> <<>>, index |-> 0, Writer |-> 1]

poolNew(id) == [handlers |-> <<>>, index |-> 0, Writer |-> id]

\* createContext resets the Context it got: c.writermem.reset(w),
\* c.handlers = handlers, c.index = -1.
ResetWriter(w) == [status |-> 200, written |-> FALSE, w |-> w]

ResetContext(c, hs) == [c EXCEPT !.handlers = hs, !.index = -1]

PoolInit ==
    /\ pool = {}
    /\ allocated = 0
    /\ ctx = [i \in CtxIds |-> NoCtx]
    /\ writermem = [i \in CtxIds |-> NoWriter]
    /\ wk = [w \in Workers |-> [pc |-> "idle", c |-> 0, req |-> 0, chain |-> <<>>]]
    /\ reqSeq = 0
    /\ released = {}

\* createContext, on a Context taken from the pool.
AcquirePooled(w, c, hs) ==
    /\ wk[w].pc = "idle"
    /\ reqSeq < MaxPoolReqs
    /\ c \in pool
    /\ pool' = pool \ {c}
    /\ reqSeq' = reqSeq + 1
    /\ ctx' = [ctx EXCEPT ![c] = ResetContext(ctx[c], hs)]
    /\ writermem' = [writermem EXCEPT ![c] = ResetWriter(reqSeq + 1)]
    /\ wk' = [wk EXCEPT ![w] = [pc |-> "fresh", c |-> c, req |-> reqSeq + 1,
                                chain |-> hs]]
    /\ UNCHANGED <<nonPoolVars, allocated, released>>

\* createContext, when pool.Get falls back to New.
AcquireNew(w, hs) ==
    /\ wk[w].pc = "idle"
    /\ reqSeq < MaxPoolReqs
    /\ allocated < MaxCtx
    /\ LET c == allocated + 1 IN
         /\ allocated' = c
         /\ reqSeq' = reqSeq + 1
         /\ ctx' = [ctx EXCEPT ![c] = ResetContext(poolNew(c), hs)]
         /\ writermem' = [writermem EXCEPT ![c] = ResetWriter(reqSeq + 1)]
         /\ wk' = [wk EXCEPT ![w] = [pc |-> "fresh", c |-> c, req |-> reqSeq + 1,
                                     chain |-> hs]]
    /\ UNCHANGED <<nonPoolVars, pool, released>>

FinalIndexes(hs) == {Len(hs), AbortIndex + 1}

\* c.Writer.WriteHeader(404 / 405); c.Next(); the response is finalized: the
\* cursor has moved, the writer c.Writer points to has been written.
RunChain(w, idx, st) ==
    /\ wk[w].pc = "fresh"
    /\ idx \in FinalIndexes(wk[w].chain)
    /\ LET c == wk[w].c IN
         /\ ctx' = [ctx EXCEPT ![c].index = idx]
         /\ writermem' = [writermem EXCEPT ![ctx[c].Writer] =
                              [@ EXCEPT !.status = st, !.written = TRUE]]
    /\ wk' = [wk EXCEPT ![w].pc = "used"]
    /\ UNCHANGED <<nonPoolVars, pool, allocated, reqSeq, released>>

\* engine.reuseContext(c): engine.pool.Put(c)
ReuseContext(w) ==
    /\ wk[w].pc = "used"
    /\ pool' = pool \cup {wk[w].c}
    /\ released' = released \cup {wk[w].c}
    /\ wk' = [wk EXCEPT ![w] = [pc |-> "idle", c |-> 0, req |-> 0, chain |-> <<>>]]
    /\ UNCHANGED <<nonPoolVars, allocated, ctx, writermem, reqSeq>>

\* A sync.Pool may drop what it holds at any garbage collection.
PoolDrop(c) ==
    /\ c \in pool
    /\ pool' = pool \ {c}
    /\ UNCHANGED <<nonPoolVars, allocated, ctx, writermem, wk, reqSeq, released>>

PoolStep ==
    \/ \E w \in Workers, c \in CtxIds, hs \in PoolChains : AcquirePooled(w, c, hs)
    \/ \E w \in Workers, hs \in PoolChains : AcquireNew(w, hs)
    \/ \E w \in Workers, st \in {404} \cup OverrideStatuses, idx \in 0..(AbortIndex + 1) :
          RunChain(w, idx, st)
    \/ \E w \in Workers : ReuseContext(w)
    \/ \E c \in CtxIds : PoolDrop(c)

(***************************************************************************)
(* The admin handlers for log levels (gin.go 261-302).                     *)
(***************************************************************************)
MaxLoggers == 2

Absent == "<absent>"
Names == {"a", "b"}
Backends == {1, 2}
Modules == {"", "m"}
NoLevel == -1
LevelNameOf == [l \in 0..5 |->
    CASE l = 0 -> "CRITICAL" [] l = 1 -> "ERROR" [] l = 2 -> "WARNING"
      [] l = 3 -> "NOTICE" [] l = 4 -> "INFO" [] OTHER -> "DEBUG"]

\* A form field that is absent reads as the empty string.
FormValue(f) == IF f = Absent THEN "" ELSE f

\* strings.ToUpper, on the strings the model sends
ToUpperSkipped(str) == str

ToUpper(str) ==
    CASE str = "debug" -> "DEBUG"
      [] str = "Info" -> "INFO"
      [] OTHER -> str

\* getNameLevel / getLevelName: level names to levels and back.
getNameLevel(name) ==
    IF \E l \in 0..5 : LevelNameOf[l] = name
      THEN CHOOSE l \in 0..5 : LevelNameOf[l] = name
      ELSE 1

getLevelName(l) == LevelNameOf[l]

\* c.Bind(req) into LogLevelReq: name and level carry binding:"required".
BindOKNameOnly(req) == FormValue(req.name) # ""

BindOK(req) == FormValue(req.name) # "" /\ FormValue(req.level) # ""

\* LLogger.SetLevelExt(level, module): "*" stands for every module.
SetLevelExt(lv, level, module) ==
    IF module = "*"
      THEN [m \in Modules |-> IF lv[m] = NoLevel /\ m # "" THEN NoLevel ELSE level]
      ELSE [lv EXCEPT ![module] = level]

\* showloglevelHandler: per registered logger, its name and the level name
\* of each module its backend has a level for.
ShowData(lg, lvls) ==
    [i \in 1..Len(lg) |->
        [name |-> lg[i].Name,
         levels |-> {<<m, getLevelName(lvls[lg[i].LLogger][m])>> :
                       m \in {x \in Modules : lvls[lg[i].LLogger][x] # NoLevel}}]]

codoonRsp(status, data, desc) ==
    [code |-> 200, Status |-> status, Data |-> data, Description |-> desc]

NoReq == [op |-> "none", name |-> Absent, module |-> Absent, level |-> Absent]
NoRsp == [code |-> 0, Status |-> "", Data |-> "", Description |-> ""]

LoggerSetups ==
    UNION {[1..n -> [Name : Names, LLogger : Backends]] : n \in 0..MaxLoggers}

AdminInit ==
    /\ logger = <<>>
    /\ registered = FALSE
    /\ levels = [b \in Backends |-> [m \in Modules |-> IF m = "" THEN 4 ELSE NoLevel]]
    /\ rsp = NoRsp
    /\ lastReq = NoReq
    /\ prevLevels = levels

\* UseAdminServer(addr, logger, handler): engine.logger = logger, the three
\* admin routes are registered and the server is started.
UseAdminServer(lg) ==
    /\ ~registered
    /\ registered' = TRUE
    /\ logger' = lg
    /\ UNCHANGED <<nonAdminVars, levels, rsp, lastReq, prevLevels>>

\* The loop of setloglevelHandler without its comparison of names.
RECURSIVE SetLoopAnyName(_, _, _, _)
SetLoopAnyName(lg, i, lvls, req) ==
    IF i > Len(lg) THEN lvls
    ELSE LET module == IF FormValue(req.module) = "" THEN "*"
                       ELSE FormValue(req.module)
             levelName == ToUpper(FormValue(req.level))
             b == lg[i].LLogger
         IN  SetLoopAnyName(lg, i + 1,
                            [lvls EXCEPT ![b] = SetLevelExt(lvls[b], getNameLevel(levelName),
                                                            module)],
                            req)

\* The levels after the loop of setloglevelHandler over engine.logger.
RECURSIVE SetLoop(_, _, _, _)
SetLoop(lg, i, lvls, req) ==
    IF i > Len(lg) THEN lvls
    ELSE IF lg[i].Name = FormValue(req.name)
      THEN LET module == IF FormValue(req.module) = "" THEN "*"
                         ELSE FormValue(req.module)
               levelName == ToUpper(FormValue(req.level))
               b == lg[i].LLogger
           IN  SetLoop(lg, i + 1,
                       [lvls EXCEPT ![b] = SetLevelExt(lvls[b], getNameLevel(levelName),
                                                       module)],
                       req)
      ELSE SetLoop(lg, i + 1, lvls, req)

\* POST /admin/set_log_level
SetLogLevel(req) ==
    /\ registered
    /\ lastReq' = [req EXCEPT !.op = "set"]
    /\ prevLevels' = levels
    /\ IF ~BindOK(req)
         THEN /\ rsp' = codoonRsp("Error", "", "missing params")
              /\ UNCHANGED levels
         ELSE /\ levels' = SetLoop(logger, 1, levels, req)
              /\ rsp' = codoonRsp("OK", ShowData(logger, levels'), "")
    /\ UNCHANGED <<nonAdminVars, logger, registered>>

\* GET /admin/show_log_level
ShowLogLevel ==
    /\ registered
    /\ lastReq' = [op |-> "show", name |-> Absent, module |-> Absent, level |-> Absent]
    /\ prevLevels' = levels
    /\ rsp' = codoonRsp("OK", ShowData(logger, levels), "")
    /\ UNCHANGED <<nonAdminVars, logger, registered, levels>>

NameFields == {Absent, "", "a", "b", "zz"}
ModuleFields == {Absent, "m"}
LevelFields == {Absent, "", "debug", "DEBUG", "Info"}
SetRequests ==
    [op : {"set"}, name : NameFields, module : ModuleFields, level : LevelFields]

AdminStep ==
    \/ \E lg \in LoggerSetups : UseAdminServer(lg)
    \/ \E req \in SetRequests : SetLogLevel(req)
    \/ ShowLogLevel

Init == DrainInit /\ ChainInit /\ PoolInit /\ AdminInit

Next == DrainStep \/ DrainEnv

Spec == Init /\ [][Next]_vars

\* The scheduler runs every goroutine that can take a step, and time passes;
\* signals, arrivals and the completion of an ordinary request are not forced.
FairSpec == Init /\ [][Next]_vars /\ WF_vars(DrainStep)

ChainSpec == Init /\ [][ChainStep]_vars

PoolSpec == Init /\ [][PoolStep]_vars

AdminSpec == Init /\ [][AdminStep]_vars

(***************************************************************************)
(* Properties of the drain.                                                *)
(***************************************************************************)
IsPrefix(s, t) == Len(s) <= Len(t) /\ \A i \in 1..Len(s) : s[i] = t[i]

InBody(c) == cpc[c] \in {"log", "set", "sel0", "sel", "end"}
AtSelect == \E c \in Callers : cpc[c] = "sel"
Returned(c) == cpc[c] \in {"ret", "exit"}
ExitReqsInService == {h \in ExitReqs : hpc[h] \in {"handler", "rsp", "flush", "sleep", "ret"}}

\* C1: the body of gracefulExit (onceFunc) is entered at most once, whatever
\* the number and interleaving of callers, and a caller of gracefulExit has
\* returned only if the body ran once and finished.
C1_BodyExactlyOnce ==
    /\ bodyRuns <= 1
    /\ Cardinality({c \in Callers : InBody(c)}) <= 1
    /\ \A c \in Callers : Returned(c) => bodyRuns = 1 /\ onceDone /\ outcome # "none"

\* A second invocation has started while the first body waits in its select.
C1_Witness ==
    \E c, d \in Callers : c # d /\ cpc[c] = "sel" /\ cpc[d] = "lock" /\ bodyRuns = 1

\* C2: a waiter is never left blocked in wgReqs.Wait() with the counter at
\* zero, the timeout branch is not taken before 60 seconds have passed, the
\* select is never still waiting after them, and a drain that has entered its
\* select always leaves it, also when a request in flight never completes.
C2_DrainUnblocks ==
    /\ [](wgCount = 0 => waiter # "blocked")
    /\ [](outcome = "timeout" => now >= timerDeadline)
    /\ [](AtSelect => now <= timerDeadline)
    /\ [](outcome = "OK" => waiter = "done")
    /\ (AtSelect ~> outcome # "none")

\* A drain whose waiter found the counter above zero and blocked ended,
\* before the timeout, by the counter reaching zero.
C2_Witness == wasBlocked /\ outcome = "OK" /\ now < timerDeadline

\* C3: the process is not ended by the os.Exit(0) of a gracefulexit request's
\* goroutine before that request's handler has written and flushed its
\* acknowledgment.
C3_AckBeforeExit ==
    \A h \in ExitReqs : cpc[h] = "exit" => hpc[h] \in {"sleep", "ret", "done"}

\* C4: whichever caller starts the drain, its events come in one order (the
\* log line, the exit flag, the wait, one outcome), the process ends only
\* after the outcome is logged, and a drain that started ends the process.
DrainEventsOK == <<"exiting", "setExit", "wait", "OK">>
DrainEventsTimeout == <<"exiting", "setExit", "wait", "timeout">>

C4_SameSequence ==
    /\ [](IsPrefix(trace, DrainEventsOK) \/ IsPrefix(trace, DrainEventsTimeout))
    /\ [](Len(trace) >= 2 => exitFlag)
    /\ [](procExited => trace \in {DrainEventsOK, DrainEventsTimeout})
    /\ (bodyRuns > 0 ~> procExited)

\* The process has exited after a drain started by the signal path that ended
\* at the timeout.
C4_Witness == procExited /\ starter = SigCaller /\ outcome = "timeout"

\* C9: in every state the counter of wgReqs equals the number of requests
\* being served.
C9_CounterIsServing ==
    wgCount = Serving + Cardinality(ExitReqsInService)

(***************************************************************************)
(* Properties of the fallback dispatcher and the chain.                    *)
(***************************************************************************)
\* C5: once the handler at position i has called Abort, no handler at a
\* position greater than i starts, for a chain of any length.
C5_NoStartAfterAbort == ~lateStart

\* C6: when no handler wrote a response and none changed the status, the
\* response sent has the default status (404 from handle404, 405 from
\* handle405), the default body and the plain-text content type.
C6_DefaultResponse ==
    (fpc \in {"reuse", "done"} /\ ~handlerWrote /\ ~statusSet) =>
        /\ sentType = MIMEPlain
        /\ reqKind = "noroute" => sentStatus = 404 /\ sentBody = Default404Body
        /\ reqKind = "nomethod" => sentStatus = 405 /\ sentBody = Default405Body

\* A no-method request whose chain aborted without touching the response
\* has been answered.
C6_Witness ==
    /\ fpc = "done" /\ reqKind = "nomethod" /\ abortedAt # {}
    /\ ~handlerWrote /\ ~statusSet

\* C7: the chain run for a no-route request is the global middleware followed
\* by the handlers last given to NoRoute, and the chain run for a no-method
\* request is the global middleware followed by those last given to NoMethod.
C7_IndependentChains ==
    /\ reqKind = "noroute" => handlers = Handlers \o noRoute
    /\ reqKind = "nomethod" => handlers = Handlers \o noMethod

(***************************************************************************)
(* Properties of the context pool.                                         *)
(***************************************************************************)
\* C8: a Context just handed out by createContext has its cursor at the
\* start, the writer it writes through unwritten and bound to the new
\* request, the new request's chain, and no other worker holds it.
C8_FreshContextIsClean ==
    \A w \in Workers : wk[w].pc = "fresh" =>
        LET c == wk[w].c
            wr == writermem[ctx[c].Writer]
        IN  /\ ctx[c].index = -1
            /\ ctx[c].handlers = wk[w].chain
            /\ wr.written = FALSE
            /\ wr.status = 200
            /\ wr.w = wk[w].req
            /\ \A v \in Workers \ {w} : wk[v].c # c

\* A Context that served an earlier request and was put back is handed out
\* again while another worker is in the middle of its own request.
C8_Witness ==
    \E w, v \in Workers :
        /\ w # v
        /\ wk[w].pc = "fresh" /\ wk[w].c \in released
        /\ wk[v].pc = "used"

(***************************************************************************)
(* Properties of the log-level handlers.                                   *)
(***************************************************************************)
\* C10: a set_log_level request whose name or level is missing or empty is
\* answered {Status: Error, Description: missing params} and changes the
\* level of no logger.
MissingParams(req) ==
    req.name \in {Absent, ""} \/ req.level \in {Absent, ""}

C10_MissingParams ==
    (lastReq.op = "set" /\ MissingParams(lastReq)) =>
        /\ rsp.Status = "Error"
        /\ rsp.Description = "missing params"
        /\ levels = prevLevels

\* A request with a registered name and an empty level was refused after an
\* earlier request had changed a level.
C10_Witness ==
    /\ lastReq.op = "set"
    /\ lastReq.name = "a" /\ lastReq.level = ""
    /\ \E i \in 1..Len(logger) : logger[i].Name = "a" /\ levels[logger[i].LLogger][""] = 5
    /\ rsp.Status = "Error"

(***************************************************************************)
(* Properties of the log level handlers, as steps of the admin server.     *)
(***************************************************************************)
\* The level a level field names, in whatever letter case it is sent.
LevelOfField(str) ==
    CASE str \in {"debug", "DEBUG"} -> 5
      [] str = "Info" -> 4
      [] OTHER -> NoLevel

LoggerIdx == 1..Len(logger)
BackendOf(i) == logger[i].LLogger

\* The step is a set request that passed Bind.
SetPassed == lastReq'.op = "set" /\ BindOK(lastReq')

\* The step is a set request that passed Bind and names logger i.
SetFor(i) == SetPassed /\ FormValue(lastReq'.name) = logger[i].Name

\* Logger i's backend is also registered under another name.
Aliased(i) ==
    \E j \in LoggerIdx : logger[j].Name # logger[i].Name /\ BackendOf(j) = BackendOf(i)

\* A set with the module omitted puts the named level on the wildcard of
\* every logger of that name and answers OK with a list that shows it.
SetWildcardShown ==
    (SetPassed /\ lastReq'.module = Absent) =>
        \A i \in LoggerIdx : FormValue(lastReq'.name) = logger[i].Name =>
            /\ levels'[BackendOf(i)][""] = LevelOfField(lastReq'.level)
            /\ rsp'.Status = "OK"
            /\ rsp'.Data[i].name = logger[i].Name
            /\ <<"", LevelNameOf[LevelOfField(lastReq'.level)]>> \in rsp'.Data[i].levels

\* A show changes no level and reports, per logger, the wildcard level held.
ShowReportsHeld ==
    lastReq'.op = "show" =>
        /\ levels' = levels
        /\ rsp'.Status = "OK"
        /\ \A i \in LoggerIdx :
              /\ rsp'.Data[i].name = logger[i].Name
              /\ <<"", LevelNameOf[levels[BackendOf(i)][""]]>> \in rsp'.Data[i].levels

DrainWaiting == timerDeadline >= 0 /\ outcome = "none"

Finalized == fpc \in {"reuse", "done"}

\* The default status of the dispatcher that serves the request.
DefaultStatusOf(kind) == IF kind = "noroute" THEN 404 ELSE 405

\* What the handlers of a request can have written: their body, repeated.
RECURSIVE Repeated(_)
Repeated(k) == IF k = 0 THEN "" ELSE Repeated(k - 1) \o HandlerBody

HandlerOutputs == {Repeated(k) : k \in 1..MaxWrites}

\* C13: once the dispatcher has finalized, a request whose handlers wrote
\* nothing and left a status other than the default was answered with that
\* status, no body and no content type; a request whose handler wrote was
\* answered with what the handlers wrote and nothing more.
C13_StatusOnlyOrUntouched ==
    Finalized =>
        /\ (~handlerWrote /\ wStatus # DefaultStatusOf(reqKind)) =>
              sentStatus = wStatus /\ sentBody = "" /\ sentType = ""
        /\ handlerWrote => sentBody \in HandlerOutputs /\ sentType = ""

\* A no-method request whose handler set the status to 404 and wrote nothing
\* was answered 404 without a body.
C13_Witness ==
    /\ fpc = "done" /\ reqKind = "nomethod" /\ statusSet /\ ~handlerWrote
    /\ sentStatus = 404 /\ sentBody = ""

(***************************************************************************)
(* Further properties of the drain: who it blocks.                         *)
(***************************************************************************)
\* The next step of a gracefulexit handler can be taken.
HandlerCanStep(h) ==
    /\ hpc[h] = "handler" => ENABLED ExitHandlerGo(h)
    /\ hpc[h] = "rsp" => ENABLED ExitHandlerRsp(h)
    /\ hpc[h] = "flush" => ENABLED ExitHandlerFlush(h)
    /\ (hpc[h] = "sleep" /\ now >= wake[h]) => ENABLED ExitHandlerWake(h)
    /\ hpc[h] = "ret" => ENABLED ExitReqLeave(h)

\* C14: as long as the process runs, draining or not, every request in
\* service can complete (and with it decrement the counter if it is counted),
\* and a gracefulexit handler can take each of its steps up to its return,
\* the return one second after its flush, whatever the state of the drain.
C14_DrainBlocksOnlyTrigger ==
    ~procExited =>
        /\ \A k \in RouteKinds, how \in FinishKinds :
              inService[k] > 0 => ENABLED ReqFinish(k, how)
        /\ \A h \in ExitReqs : HandlerCanStep(h)

\* The gracefulexit handler has returned while the drain its goroutine
\* started is still waiting for a routed request.
C14_Witness ==
    /\ \E h \in ExitReqs : hpc[h] = "done" /\ starter = h /\ cpc[h] = "sel"
    /\ outcome = "none" /\ inService["route"] > 0 /\ ~procExited

(***************************************************************************)
(* Further properties of the drain: requests after the exit flag.          *)
(***************************************************************************)
\* With the exit flag set, a request of each kind is still taken into
\* service, a routed one counted; a fallback request is still dispatched with
\* the chain and the default status of its dispatcher; and each request in
\* service can still complete.
ServedWithFlagSet ==
    (exitFlag /\ ~procExited) =>
        /\ \A k \in RouteKinds : Serving < MaxReqs =>
              ENABLED (/\ ReqArrive(k)
                       /\ inService'[k] = inService[k] + 1
                       /\ k = "route" => wgCount' = wgCount + 1)
        /\ \A kind \in {"noroute", "nomethod"} :
              ENABLED (/\ Dispatch(kind)
                       /\ handlers' = allNoRouteNoMethod
                       /\ wStatus' = DefaultStatusOf(kind))
        /\ \A k \in RouteKinds, how \in FinishKinds :
              inService[k] > 0 => ENABLED ReqFinish(k, how)

\* A step that takes a request out of service is a step of that request
\* alone: it is no step of the drain, of a trigger or of the clock.
NoCancellation ==
    (\E k \in RouteKinds : inService'[k] < inService[k]) =>
        /\ cpc' = cpc /\ sigpc' = sigpc /\ hpc' = hpc
        /\ outcome' = outcome /\ exitFlag' = exitFlag /\ now' = now
        /\ procExited' = procExited

PostOnlyOnTop ==
    \A i \in 1..Len(stack) : stack[i].ph = "post" => i = Len(stack)

\* C16: a handler that was waiting in its call of Next when a handler at a
\* later position aborted is started once, runs its code after Next once and
\* not more, only after every handler above it has returned, and has run it
\* by the time the request is finalized.
C16_PostCodeRunsOnce ==
    /\ PostOnlyOnTop
    /\ \A j \in waitAborted :
          /\ j \notin startedAgain
          /\ j \notin postAgain
          /\ Finalized => j \in postDone

\* C17: the cursor of a request never decreases, and no handler of the chain
\* starts more than once, for a chain of any length.
C17_CursorNeverDecreases ==
    [][index' >= index]_vars /\ [](startedAgain = {})

(***************************************************************************)
(* Further properties of the drain: the exit of the HTTP path.             *)
(***************************************************************************)
\* C18: when the goroutine of a gracefulexit request has got back from
\* gracefulExit, or has called os.Exit(0), no caller is inside the drain
\* body, the drain has logged its outcome and is not waiting; this also when
\* the body was run by the signal path.
C18_NoExitWhileDraining ==
    \A h \in ExitReqs : cpc[h] \in {"ret", "exit"} =>
        /\ \A c \in Callers : ~InBody(c)
        /\ ~DrainWaiting
        /\ trace \in {DrainEventsOK, DrainEventsTimeout}

\* The HTTP path ended the process after a drain that the signal path ran
\* and whose waiter had been blocked on the counter.
C18_Witness ==
    /\ procExited /\ exitedBy = "http" /\ starter = SigCaller /\ wasBlocked
    /\ \E h \in ExitReqs : cpc[h] = "exit"

\* C19: the waiter goroutine that gracefulExit started is not left at its
\* send: when the timeout branch won and the counter reached zero afterwards,
\* the send has completed by the time the process ends.
C19_WaiterSendCompletes ==
    ~(procExited /\ outcome = "timeout" /\ wasBlocked /\ waiter = "send")

(***************************************************************************)
(* The frame of a set-level request.                                       *)
(***************************************************************************)
\* The backends held by the registered loggers of the name the step's
\* request carries.
NamedBackends ==
    {BackendOf(i) : i \in {j \in LoggerIdx : logger[j].Name = FormValue(lastReq'.name)}}

\* The answer is Status OK and lists, per registered logger, its name and the
\* level name of every module its backend has a level for after the step.
AnswersCurrentLevels ==
    /\ rsp'.code = 200 /\ rsp'.Status = "OK"
    /\ Len(rsp'.Data) = Len(logger)
    /\ \A i \in LoggerIdx :
          /\ rsp'.Data[i].name = logger[i].Name
          /\ \A m \in Modules :
                IF levels'[BackendOf(i)][m] = NoLevel
                  THEN \A n \in 0..5 : <<m, LevelNameOf[n]>> \notin rsp'.Data[i].levels
                  ELSE <<m, LevelNameOf[levels'[BackendOf(i)][m]]>> \in rsp'.Data[i].levels

\* A set that names a module leaves the other modules of the named backends.
OnlyRequestedModule ==
    FormValue(lastReq'.module) # "" =>
        \A b \in NamedBackends : \A m \in Modules \ {lastReq'.module} :
            levels'[b][m] = levels[b][m]

\* C20: a set request that passed Bind changes levels only on the backends
\* held by registered loggers of the requested name, and there only for the
\* requested module when one is given; every other backend, so every logger
\* of another name that shares no backend with the named ones, keeps its
\* levels; when no registered logger has the name no level changes; the
\* answer is Status OK with the levels after the step.
C20_SetFrame ==
    [][SetPassed =>
          /\ \A b \in Backends \ NamedBackends : levels'[b] = levels[b]
          /\ OnlyRequestedModule
          /\ (NamedBackends = {} => levels' = levels)
          /\ AnswersCurrentLevels]_vars

\* Two loggers of different names on different backends; a set for "a" with
\* module "m" has changed that module only, and the last request, a set for
\* a name that is not registered, was answered OK and changed nothing.
C20_Witness ==
    /\ Len(logger) = 2
    /\ logger[1].Name = "a" /\ logger[2].Name = "b"
    /\ BackendOf(1) # BackendOf(2)
    /\ levels[BackendOf(1)]["m"] = 5 /\ levels[BackendOf(1)][""] = 4
    /\ levels[BackendOf(2)]["m"] = NoLevel /\ levels[BackendOf(2)][""] = 4
    /\ lastReq.op = "set" /\ lastReq.name = "zz" /\ lastReq.level = "DEBUG"
    /\ rsp.Status = "OK"
    /\ levels = prevLevels

\* C20 as stated: every registered logger of another name keeps its levels,
\* whatever backend it holds.
C20_OtherNamesUnchanged ==
    [][SetPassed =>
          /\ \A i \in LoggerIdx : logger[i].Name # FormValue(lastReq'.name) =>
                 levels'[BackendOf(i)] = levels[BackendOf(i)]
          /\ OnlyRequestedModule
          /\ (NamedBackends = {} => levels' = levels)
          /\ AnswersCurrentLevels]_vars

====
